---- MODULE Spec2Model ----
(***************************************************************************)
(* Model of services/product-api/app.py: a Flask service holding an       *)
(* in-memory list of product records.  The state is the module-level list *)
(* `products`, the dict `app_state`, and, so that properties of single    *)
(* requests can be stated, the last request handled and its response.     *)
(*                                                                         *)
(* Numbers with a fractional part (prices, JSON numbers) are held in      *)
(* hundredths ("cents"), so 1.99 is 199.  JSON strings are sequences of   *)
(* one-character strings, so that Python's float(str), int(str) and the   *)
(* substring test `field in data` are computed and not assumed.           *)
(***************************************************************************)
EXTENDS Integers, Sequences, FiniteSets, TLC

VARIABLES
    products,   \* the module-level list `products` (lines 20-26)
    app_state,  \* the module-level dict `app_state` (lines 28-31)
    request,    \* the last request handled: route, product_id, JSON body
    response,   \* the (body, status) its handler returned
    created,    \* history: number of 201 responses of create_product
    inflight    \* per server thread, the locals of a create in progress

vars == <<products, app_state, request, response, created, inflight>>

----------------------------------------------------------------------------
(* Bounds of the model.                                                    *)

\* Successful creates explored on top of the seeded collection.
MaxCreates == 3

----------------------------------------------------------------------------
(* JSON values as request.get_json() yields them.                          *)

Num(c) == [t |-> "num", cents |-> c, chars |-> <<>>]
Str(s) == [t |-> "str", cents |-> 0, chars |-> s]
Null == [t |-> "null", cents |-> 0, chars |-> <<>>]

Digits == <<"0", "1", "2", "3", "4", "5", "6", "7", "8", "9">>

IsDigit(ch) == \E i \in 1..10 : Digits[i] = ch

DigitVal(ch) == (CHOOSE i \in 1..10 : Digits[i] = ch) - 1

IsDigits(s) == Len(s) > 0 /\ \A i \in 1..Len(s) : IsDigit(s[i])

RECURSIVE ToNat(_)
ToNat(s) ==
    IF s = <<>> THEN 0
    ELSE 10 * ToNat(SubSeq(s, 1, Len(s) - 1)) + DigitVal(s[Len(s)])

\* The text after an optional leading sign.
Unsigned(s) == IF s # <<>> /\ s[1] \in {"-", "+"} THEN Tail(s) ELSE s

Sign(s) == IF s # <<>> /\ s[1] = "-" THEN -1 ELSE 1

\* Position of the first "." of s, 0 when there is none.
DotAt(s) ==
    IF \E i \in 1..Len(s) : s[i] = "."
    THEN CHOOSE i \in 1..Len(s) : s[i] = "." /\ \A j \in 1..(i - 1) : s[j] # "."
    ELSE 0

\* Hundredths denoted by a fraction text of at most two digits.
FracCents(f) ==
    IF f = <<>> THEN 0
    ELSE IF Len(f) = 1 THEN 10 * DigitVal(f[1])
    ELSE ToNat(f)

Ok(v) == [ok |-> TRUE, v |-> v, exc |-> "none"]
Raise(e) == [ok |-> FALSE, v |-> 0, exc |-> e]

\* float(str): sign, digits, optional point and digits (at most two here).
FloatOfStr(s) ==
    LET u == Unsigned(s)
        d == DotAt(u)
        w == IF d = 0 THEN u ELSE SubSeq(u, 1, d - 1)
        f == IF d = 0 THEN <<>> ELSE SubSeq(u, d + 1, Len(u))
    IN  IF /\ (w = <<>> \/ IsDigits(w))
           /\ (f = <<>> \/ IsDigits(f))
           /\ (w # <<>> \/ f # <<>>)
           /\ Len(f) <= 2
        THEN Ok(Sign(s) * (100 * ToNat(w) + FracCents(f)))
        ELSE Raise("ValueError")

\* int(str): sign and digits only; a decimal point is a ValueError.
IntOfStr(s) ==
    LET u == Unsigned(s)
    IN  IF IsDigits(u) THEN Ok(Sign(s) * ToNat(u)) ELSE Raise("ValueError")

\* int(number) truncates toward zero.
Trunc(c) == IF c >= 0 THEN c \div 100 ELSE -((-c) \div 100)

\* float(data['price'])
Float(v) ==
    CASE v.t = "num" -> Ok(v.cents)
      [] v.t = "str" -> FloatOfStr(v.chars)
      [] OTHER -> Raise("TypeError")

\* int(data['stock'])
Int_(v) ==
    CASE v.t = "num" -> Ok(Trunc(v.cents))
      [] v.t = "str" -> IntOfStr(v.chars)
      [] OTHER -> Raise("TypeError")

----------------------------------------------------------------------------
(* Request bodies.  `keys` are the keys of a JSON object, `elems` the      *)
(* elements of a JSON array, `chars` the text of a JSON string.            *)

Body(k, ks, n, p, s, es, cs) ==
    [kind |-> k, keys |-> ks, name |-> n, price |-> p, stock |-> s,
     elems |-> es, chars |-> cs]

Obj(ks, n, p, s) == Body("object", ks, n, p, s, <<>>, <<>>)
Arr(es) == Body("array", {}, Null, Null, Null, es, <<>>)
StrBody(cs) == Body("string", {}, Null, Null, Null, <<>>, cs)
NumBody == Body("number", {}, Null, Null, Null, <<>>, <<>>)
NullBody == Body("null", {}, Null, Null, Null, <<>>, <<>>)

required == <<"name", "price", "stock">>

FieldChars(field) ==
    CASE field = "name" -> <<"n", "a", "m", "e">>
      [] field = "price" -> <<"p", "r", "i", "c", "e">>
      [] field = "stock" -> <<"s", "t", "o", "c", "k">>

\* x in s for two Python strings: x occurs in s as a substring.
IsSubstring(x, s) ==
    \E i \in 0..(Len(s) - Len(x)) : SubSeq(s, i + 1, i + Len(x)) = x

\* `field in data`: key of a dict, element of a list, substring of a str;
\* a number or None is not iterable.
In(field, data) ==
    CASE data.kind = "object" -> Ok(field \in data.keys)
      [] data.kind = "array" ->
            Ok(\E i \in 1..Len(data.elems) : data.elems[i] = Str(FieldChars(field)))
      [] data.kind = "string" -> Ok(IsSubstring(FieldChars(field), data.chars))
      [] OTHER -> Raise("TypeError")

\* all(field in data for field in required), left to right, stopping at the
\* first false test or the first exception.
RECURSIVE AllRequiredFrom(_, _)
AllRequiredFrom(data, i) ==
    IF i > Len(required) THEN Ok(TRUE)
    ELSE LET r == In(required[i], data)
         IN  IF ~r.ok THEN r
             ELSE IF ~r.v THEN Ok(FALSE)
             ELSE AllRequiredFrom(data, i + 1)

AllRequired(data) == AllRequiredFrom(data, 1)

\* data[field]: only a dict can be subscripted with a string.
Subscript(data, field) ==
    IF data.kind # "object" THEN Raise("TypeError")
    ELSE IF field \notin data.keys THEN Raise("KeyError")
    ELSE Ok(CASE field = "name" -> data.name
              [] field = "price" -> data.price
              [] field = "stock" -> data.stock)

----------------------------------------------------------------------------
(* Responses: the status code and the JSON body.                           *)

Resp(st, b) == [status |-> st, body |-> b]

\* An unhandled exception becomes the framework's 500 response.
ServerError(e) == Resp(500, [exc |-> e])

NoResponse == Resp(0, [none |-> TRUE])

Product(i, n, p, s) == [id |-> i, name |-> n, price |-> p, stock |-> s]

Chars_Laptop == <<"L", "a", "p", "t", "o", "p">>
Chars_Mouse == <<"M", "o", "u", "s", "e">>
Chars_Keyboard == <<"K", "e", "y", "b", "o", "a", "r", "d">>
Chars_Monitor == <<"M", "o", "n", "i", "t", "o", "r">>
Chars_Webcam == <<"W", "e", "b", "c", "a", "m">>

SeedProducts ==
    << Product(1, Str(Chars_Laptop), 99999, 50),
       Product(2, Str(Chars_Mouse), 2999, 200),
       Product(3, Str(Chars_Keyboard), 7999, 150),
       Product(4, Str(Chars_Monitor), 29999, 75),
       Product(5, Str(Chars_Webcam), 8999, 100) >>

SeedAppState == [ready |-> TRUE]

Max(S) == CHOOSE x \in S : \A y \in S : y <= x

Ids(ps) == {ps[i].id : i \in 1..Len(ps)}

health == Resp(200, [status |-> "healthy", service |-> "product-api"])

\* The readiness test inverted.
ready_Inverted(st) ==
    IF st.ready THEN Resp(503, [status |-> "not ready"])
    ELSE Resp(200, [status |-> "ready", service |-> "product-api"])

ready(st) ==
    IF ~st.ready THEN Resp(503, [status |-> "not ready"])
    ELSE Resp(200, [status |-> "ready", service |-> "product-api"])

get_products(ps) ==
    Resp(200, [success |-> TRUE, count |-> Len(ps), products |-> ps])

\* The scan matching on p['id'] >= product_id.
FirstMatch_AtLeast(ps, product_id) ==
    IF \E i \in 1..Len(ps) : ps[i].id >= product_id
    THEN CHOOSE i \in 1..Len(ps) :
            /\ ps[i].id >= product_id
            /\ \A j \in 1..(i - 1) : ps[j].id < product_id
    ELSE 0

\* next((p for p in products if p['id'] == product_id), None)
FirstMatch(ps, product_id) ==
    IF \E i \in 1..Len(ps) : ps[i].id = product_id
    THEN CHOOSE i \in 1..Len(ps) :
            /\ ps[i].id = product_id
            /\ \A j \in 1..(i - 1) : ps[j].id # product_id
    ELSE 0

get_product(ps, product_id) ==
    LET i == FirstMatch(ps, product_id)
    IN  IF i # 0 THEN Resp(200, [success |-> TRUE, product |-> ps[i]])
        ELSE Resp(404, [success |-> FALSE, error |-> "Product not found"])

Min(S) == CHOOSE x \in S : \A y \in S : x <= y

\* The next id taken from the smallest id.
NextId_Min(ps) == IF ps # <<>> THEN Min(Ids(ps)) + 1 ELSE 1

\* The next id without the increment.
NextId_NoIncrement(ps) == IF ps # <<>> THEN Max(Ids(ps)) ELSE 1

\* The next id taken from the number of records.
NextId_Count(ps) == Len(ps)

\* max([p['id'] for p in products]) + 1 if products else 1
NextId(ps) == IF ps # <<>> THEN Max(Ids(ps)) + 1 ELSE 1

\* Lines 83-94: the presence check and the construction of new_product.
\* The dict display evaluates id, name, price, stock in that order, so the
\* first failing item decides the exception.
BuildProduct(ps, data) ==
    LET present == AllRequired(data)
        n == Subscript(data, "name")
        p == Subscript(data, "price")
        s == Subscript(data, "stock")
        fp == Float(p.v)
        is == Int_(s.v)
        Rejected(r) == [ok |-> FALSE, response |-> r, product |-> Product(0, Null, 0, 0)]
    IN  IF ~present.ok THEN Rejected(ServerError(present.exc))
        ELSE IF ~present.v
        THEN Rejected(Resp(400, [success |-> FALSE, error |-> "Missing required fields"]))
        ELSE IF ~n.ok THEN Rejected(ServerError(n.exc))
        ELSE IF ~p.ok THEN Rejected(ServerError(p.exc))
        ELSE IF ~fp.ok THEN Rejected(ServerError(fp.exc))
        ELSE IF ~s.ok THEN Rejected(ServerError(s.exc))
        ELSE IF ~is.ok THEN Rejected(ServerError(is.exc))
        ELSE [ok |-> TRUE, response |-> NoResponse,
              product |-> Product(NextId(ps), n.v, fp.v, is.v)]

\* The new record overwriting the last one.
AppendProduct_Replace(ps, new_product) ==
    IF ps = <<>> THEN <<new_product>>
    ELSE [ps EXCEPT ![Len(ps)] = new_product]

\* products.insert(0, new_product)
AppendProduct_Prepend(ps, new_product) == <<new_product>> \o ps

\* The id assigned again at the time of the append.
AppendProduct_FreshId(ps, new_product) ==
    Append(ps, [new_product EXCEPT !.id = NextId(ps)])

\* products.append(new_product)
AppendProduct(ps, new_product) == Append(ps, new_product)

Created(new_product) == Resp(201, [success |-> TRUE, product |-> new_product])

\* The record appended as soon as the required keys are present, its price
\* and stock coerced afterwards.
create_product_AppendFirst(ps, data) ==
    LET b == BuildProduct(ps, data)
        present == AllRequired(data)
    IN  IF b.ok
        THEN [products |-> Append(ps, b.product), response |-> Created(b.product)]
        ELSE IF present.ok /\ present.v /\ data.kind = "object"
        THEN [products |-> Append(ps, Product(NextId(ps), data.name, 0, 0)),
              response |-> b.response]
        ELSE [products |-> ps, response |-> b.response]

\* The whole handler: the collection after the request and the response.
create_product(ps, data) ==
    LET b == BuildProduct(ps, data)
    IN  IF ~b.ok THEN [products |-> ps, response |-> b.response]
        ELSE [products |-> AppendProduct(ps, b.product),
              response |-> Created(b.product)]

\* random.randint(100, 1000): any value of the range; its ends stand for it.
RequestCounts == {100, 1000}

metrics(ps, n) ==
    Resp(200, [http_requests_total |-> n, products_total |-> Len(ps)])

index ==
    Resp(200, [service |-> "Product API", version |-> "1.0.0",
               endpoints |-> [health |-> "/health", ready |-> "/ready",
                              products |-> "/api/products", metrics |-> "/metrics"]])

----------------------------------------------------------------------------
(* The requests explored.                                                  *)

Chars_Pen == <<"P", "e", "n">>
Chars_Cup == <<"C", "u", "p">>

NameInputs == {Str(Chars_Pen), Str(Chars_Cup)}

\* 1.99, "1.99", "abc", null
PriceInputs == {Num(199), Str(<<"1", ".", "9", "9">>), Str(<<"a", "b", "c">>), Null}

\* 500, -2.5, "500", "2.5", null
StockInputs ==
    {Num(50000), Num(-250), Str(<<"5", "0", "0">>), Str(<<"2", ".", "5">>), Null}

RequiredKeys == {required[i] : i \in 1..Len(required)}

\* Objects holding the three required keys.
FullBodies ==
    {Obj(RequiredKeys, n, p, s) : n \in NameInputs, p \in PriceInputs, s \in StockInputs}
        \cup {Obj(RequiredKeys \cup {"sku"}, Str(Chars_Pen), Num(199), Num(50000))}

\* Objects lacking at least one required key.
PartialBodies ==
    {Obj(ks, Str(Chars_Pen), Num(199), Num(50000)) :
        ks \in {k \in SUBSET (RequiredKeys \cup {"sku"}) : ~(RequiredKeys \subseteq k)}}

\* Bodies that parse to something other than an object:
\* [], ["name"], ["name","price","stock"], "name", "stockpricename", 42, null.
OtherBodies ==
    { Arr(<<>>),
      Arr(<<Str(FieldChars("name"))>>),
      Arr(<<Str(FieldChars("name")), Str(FieldChars("price")), Str(FieldChars("stock"))>>),
      StrBody(FieldChars("name")),
      StrBody(FieldChars("stock") \o FieldChars("price") \o FieldChars("name")),
      NumBody,
      NullBody }

Bodies == FullBodies \cup PartialBodies \cup OtherBodies

MaxLen == Len(SeedProducts) + MaxCreates

LookupIds == 0..(MaxLen + 1)

Threads == {"t1", "t2"}

Req(o, i, d, n) == [op |-> o, id |-> i, data |-> d, n |-> n]

NoProduct == Product(0, Null, 0, 0)

Idle == [pc |-> "idle", new_product |-> NoProduct, seen |-> 0, pos |-> 0,
         response |-> NoResponse]

----------------------------------------------------------------------------
(* The state after the module is imported, and one action per route.       *)

Init ==
    /\ products = SeedProducts
    /\ app_state = SeedAppState
    /\ request = Req("none", 0, NullBody, 0)
    /\ response = NoResponse
    /\ created = 0
    /\ inflight = [t \in Threads |-> Idle]

Health ==
    /\ request' = Req("health", 0, NullBody, 0)
    /\ response' = health
    /\ UNCHANGED <<products, app_state, created, inflight>>

Ready ==
    /\ request' = Req("ready", 0, NullBody, 0)
    /\ response' = ready(app_state)
    /\ UNCHANGED <<products, app_state, created, inflight>>

GetProducts ==
    /\ request' = Req("get_products", 0, NullBody, 0)
    /\ response' = get_products(products)
    /\ UNCHANGED <<products, app_state, created, inflight>>

GetProduct ==
    \E product_id \in LookupIds :
        /\ request' = Req("get_product", product_id, NullBody, 0)
        /\ response' = get_product(products, product_id)
        /\ UNCHANGED <<products, app_state, created, inflight>>

CreateProduct ==
    \E data \in Bodies :
        LET out == create_product(products, data)
        IN  /\ Len(products) < MaxLen
            /\ request' = Req("create_product", 0, data, 0)
            /\ products' = out.products
            /\ response' = out.response
            /\ created' = IF out.response.status = 201 THEN created + 1 ELSE created
            /\ UNCHANGED <<app_state, inflight>>

Metrics ==
    \E n \in RequestCounts :
        /\ request' = Req("metrics", 0, NullBody, n)
        /\ response' = metrics(products, n)
        /\ UNCHANGED <<products, app_state, created, inflight>>

Index ==
    /\ request' = Req("index", 0, NullBody, 0)
    /\ response' = index
    /\ UNCHANGED <<products, app_state, created, inflight>>

\* Requests handled one at a time, each handler running to completion.
Next ==
    \/ Health
    \/ Ready
    \/ GetProducts
    \/ GetProduct
    \/ CreateProduct
    \/ Metrics
    \/ Index

Spec == Init /\ [][Next]_vars

----------------------------------------------------------------------------
(* Two create requests on two server threads.  Nothing locks `products`,   *)
(* so a thread can be preempted between the construction of new_product    *)
(* (lines 83-94) and products.append (line 96).                            *)

Building == {t \in Threads : inflight[t].pc = "built"}

\* Lines 83-94 on thread t: reject, or hold new_product until the append.
Begin(t) ==
    \E data \in Bodies :
        LET b == BuildProduct(products, data)
        IN  /\ inflight[t].pc = "idle"
            /\ Len(products) + Cardinality(Building) < MaxLen
            /\ inflight' = [inflight EXCEPT ![t] =
                    IF b.ok
                    THEN [pc |-> "built", new_product |-> b.product,
                          seen |-> Len(products), pos |-> 0, response |-> NoResponse]
                    ELSE [pc |-> "done", new_product |-> NoProduct,
                          seen |-> Len(products), pos |-> 0, response |-> b.response]]
            /\ UNCHANGED <<products, app_state, request, response, created>>

\* Lines 96-99 on thread t.
Finish(t) ==
    /\ inflight[t].pc = "built"
    /\ products' = AppendProduct(products, inflight[t].new_product)
    /\ inflight' = [inflight EXCEPT ![t] =
            [@ EXCEPT !.pc = "done", !.pos = Len(products'),
                      !.response = Created(inflight[t].new_product)]]
    /\ created' = created + 1
    /\ UNCHANGED <<app_state, request, response>>

\* The response of thread t has been sent; the thread takes a new request.
Return(t) ==
    /\ inflight[t].pc = "done"
    /\ inflight' = [inflight EXCEPT ![t] = Idle]
    /\ UNCHANGED <<products, app_state, request, response, created>>

NextConc ==
    \/ \E t \in Threads : Begin(t)
    \/ \E t \in Threads : Finish(t)
    \/ \E t \in Threads : Return(t)

SpecConc == Init /\ [][NextConc]_vars

----------------------------------------------------------------------------
(* Properties.                                                             *)

IsPrefix(a, b) == Len(a) <= Len(b) /\ SubSeq(b, 1, Len(a)) = a

CreateSucceeded == request.op = "create_product" /\ response.status = 201

\* C1: with requests handled one at a time, no two records of the
\* collection ever have the same id.
C1_UniqueIds ==
    \A i, j \in 1..Len(products) : i # j => products[i].id # products[j].id

C1_Witness ==
    /\ CreateSucceeded
    /\ created >= 2
    /\ Cardinality(Ids(products)) = Len(SeedProducts) + 2

\* C2: after N successful creates the count reported by GET /api/products
\* is the seeded count plus N, and each successful create gives its record
\* an id strictly greater than every id held before that create.
C2_CountState ==
    /\ get_products(products).body.count = Len(SeedProducts) + created
    /\ request.op = "get_products" =>
            response.body.count = Len(SeedProducts) + created

C2_CreateStep ==
    (request'.op = "create_product" /\ response'.status = 201) =>
        /\ created' = created + 1
        /\ \A i \in 1..Len(products) : response'.body.product.id > products[i].id

C2_CountAndGreaterIds == [](C2_CountState) /\ [][C2_CreateStep]_vars

C2_Witness ==
    /\ request.op = "get_products"
    /\ created >= 2
    /\ response.body.count = Len(SeedProducts) + created

\* The body has no JSON object holding all of name, price and stock.
LacksRequiredKey(data) ==
    data.kind # "object" \/ ~(RequiredKeys \subseteq data.keys)

\* C3: a POST whose parsed body lacks one of name, price, stock (objects
\* and bodies that are not objects alike) is answered 400 "Missing required
\* fields" and leaves the collection as it was.
C3_MissingFieldsAlways400 ==
    [][(request'.op = "create_product" /\ LacksRequiredKey(request'.data)) =>
            /\ response'.status = 400
            /\ response'.body.success = FALSE
            /\ response'.body.error = "Missing required fields"
            /\ products' = products]_vars

\* C4: a lookup of an id held by a record answers 200 with that record, a
\* lookup of any other id answers 404 "Product not found", and the record
\* a create reported is the one a lookup of its id returns.
C4_LookupExact ==
    /\ \A product_id \in LookupIds :
          LET r == get_product(products, product_id)
          IN  /\ \A i \in 1..Len(products) :
                    products[i].id = product_id =>
                        r.status = 200 /\ r.body.success /\ r.body.product = products[i]
              /\ (\A i \in 1..Len(products) : products[i].id # product_id) =>
                    r.status = 404 /\ ~r.body.success
                        /\ r.body.error = "Product not found"
    /\ request.op = "get_product" =>
          response.status = get_product(products, request.id).status
    /\ (request.op = "get_product" /\ response.status = 200) =>
          \E i \in 1..Len(products) :
              products[i].id = request.id /\ response.body.product = products[i]
    /\ (request.op = "get_product" /\ response.status # 200) =>
          /\ response.status = 404
          /\ request.id \notin Ids(products)
    /\ CreateSucceeded =>
          LET r == get_product(products, response.body.product.id)
          IN  r.status = 200 /\ r.body.product = response.body.product

C4_Witness ==
    /\ request.op = "get_product"
    /\ request.id > Len(SeedProducts)
    /\ response.status = 200
    /\ response.body.product.id = request.id

\* C5: a successful create gives the record the id max(existing ids) + 1
\* (1 for an empty collection) and puts it last; the first successful
\* create on the seeded collection reports id 6 and the list then counts 6.
C5_CreateStep ==
    (request'.op = "create_product" /\ response'.status = 201) =>
        /\ response'.body.product.id =
              (IF Len(products) = 0 THEN 1 ELSE Max(Ids(products)) + 1)
        /\ products' = Append(products, response'.body.product)

C5_Scenario ==
    /\ (CreateSucceeded /\ created = 1) => response.body.product.id = 6
    /\ (request.op = "get_products" /\ created = 1) => response.body.count = 6

C5_MaxPlusOneAppended == [](C5_Scenario) /\ [][C5_CreateStep]_vars

C5_Witness ==
    /\ request.op = "get_products"
    /\ created = 1
    /\ response.body.count = 6
    /\ products[6].id = 6

\* C6: GET /ready answers 200 "ready" exactly when app_state.ready is true
\* and 503 "not ready" exactly when it is false; no handler writes the
\* flag, so it stays true, every GET /ready answers 200 and no response is
\* a 503.
C6_ReadyAlways200 ==
    /\ \A b \in BOOLEAN :
          LET r == ready([ready |-> b])
          IN  /\ (r.status = 200) <=> b
              /\ (r.status = 503) <=> ~b
              /\ r.body.status = (IF b THEN "ready" ELSE "not ready")
    /\ app_state.ready = TRUE
    /\ ready(app_state).status = 200
    /\ request.op = "ready" => response.status = 200 /\ response.body.status = "ready"
    /\ response.status # 503

C6_Witness ==
    /\ request.op = "ready"
    /\ response.status = 200
    /\ created >= 1

\* C7: every step leaves the collection a prefix of what it becomes, and
\* the collection grows only in a successful create, by exactly one record.
C7_AppendOnly ==
    [][/\ IsPrefix(products, products')
       /\ Len(products') > Len(products) =>
            /\ request'.op = "create_product"
            /\ response'.status = 201
            /\ Len(products') = Len(products) + 1
       /\ Len(products') = Len(products) =>
            ~(request'.op = "create_product" /\ response'.status = 201)]_vars

C7_Witness ==
    /\ created >= 1
    /\ Len(products) = Len(SeedProducts) + created
    /\ SubSeq(products, 1, Len(SeedProducts)) = SeedProducts
    /\ request.op # "create_product"

\* Two threads whose creates both built new_product from the same
\* collection (neither had appended yet) and both appended.
Raced(t, u) ==
    /\ t # u
    /\ inflight[t].pc = "done" /\ inflight[u].pc = "done"
    /\ inflight[t].pos > 0 /\ inflight[u].pos > 0
    /\ inflight[t].seen = inflight[u].seen

\* C8: when two valid creates both compute their id before either appends,
\* both are answered 201 with the same id, the collection holds two records
\* with that id, and a lookup of it returns the record appended first.
C8_RaceDuplicatesId ==
    \A t, u \in Threads :
        Raced(t, u) =>
            LET rt == inflight[t].response
                ru == inflight[u].response
                first == IF inflight[t].pos < inflight[u].pos
                         THEN inflight[t].pos ELSE inflight[u].pos
            IN  /\ rt.status = 201 /\ ru.status = 201
                /\ rt.body.product.id = ru.body.product.id
                /\ inflight[t].pos # inflight[u].pos
                /\ products[inflight[t].pos].id = rt.body.product.id
                /\ products[inflight[u].pos].id = rt.body.product.id
                /\ ~C1_UniqueIds
                /\ FirstMatch(products, rt.body.product.id) = first
                /\ get_product(products, rt.body.product.id).body.product
                        = products[first]

C8_Witness ==
    /\ Raced("t1", "t2")
    /\ inflight["t1"].pos < inflight["t2"].pos
    /\ inflight["t1"].response.body.product.id = inflight["t2"].response.body.product.id
    /\ inflight["t1"].response.body.product # inflight["t2"].response.body.product
    /\ get_product(products, inflight["t2"].response.body.product.id).body.product
            = inflight["t1"].response.body.product

\* The body holds name, price and stock, and float(price) or int(stock)
\* raises.
Uncoercible(data) ==
    /\ data.kind = "object"
    /\ RequiredKeys \subseteq data.keys
    /\ ~Float(data.price).ok \/ ~Int_(data.stock).ok

\* C9: a create whose price or stock cannot be coerced ends in an error
\* response with no partial effect: nothing is appended, no id is used up
\* and the collection is what it was.
C9_CoercionFailureNoEffect ==
    [][(request'.op = "create_product" /\ Uncoercible(request'.data)) =>
            /\ response'.status >= 400
            /\ products' = products
            /\ created' = created
            /\ NextId(products') = Max(Ids(products)) + 1]_vars

C9_Witness ==
    /\ request.op = "create_product"
    /\ Uncoercible(request.data)
    /\ response.status = 500
    /\ created >= 1
    /\ Len(products) = Len(SeedProducts) + created

\* C10: with requests handled one at a time the collection is never empty,
\* the record at position i has id i, and a successful create reports the
\* id (number of records before it) + 1.
C10_DenseIds ==
    /\ products # <<>>
    /\ \A i \in 1..Len(products) : products[i].id = i
    /\ Ids(products) = 1..Len(products)
    /\ CreateSucceeded => response.body.product.id = Len(products)

C10_Witness ==
    /\ CreateSucceeded
    /\ created = 2
    /\ response.body.product.id = Len(SeedProducts) + 2
    /\ products[Len(products)] = response.body.product

====
